---- MODULE Spec2Model ----
(***************************************************************************)
(* A model of outbreak.py: the Gillespie engine Outbreak (constructor and  *)
(* run loop) and its two samplers, sample_index and sample_delay.          *)
(*                                                                         *)
(* Numbers.  Propensities, weights, states and runtimes are integers.      *)
(* Simulated time is an exact rational <<n, d>> in lowest terms, d > 0.    *)
(* A value of random() is one of finitely many points of [0, 1):           *)
(*   - at sample_index, u = k / UDen for k in 0 .. UDen-1;                 *)
(*   - at sample_delay, u = 0.0 (encoded 0) or u = exp(-n) for an integer  *)
(*     n >= 1 (encoded n), so that -log(u) = n exactly.  Called on its own *)
(*     the sampler is given n in 1 .. MaxNegLog; inside run() it is given  *)
(*     n = L * sum(pmf) for L in 1 .. MaxNegLog, which makes the waiting   *)
(*     time the whole number L and keeps every time of a run small;        *)
(*   - at sample_delay, u = 1 - 2^-53, the largest double below 1 (encoded *)
(*     by a negative number), for which -log(u) is 2^-53.                  *)
(* Addition of times is exact except where a double cannot hold the sum:   *)
(* a waiting time of at most 2^-53 added to a whole time t >= 1 gives t.   *)
(* Indices are 0-based, as in the source.                                  *)
(***************************************************************************)
EXTENDS Integers, Sequences, FiniteSets, TLC

VARIABLES
    pc,          \* "new" | "ready" | "running" | "returned" | "failed" | "probe"
    inp,         \* the input bundle given to Outbreak(inp)
    parameters,  \* self.parameters
    runtime,     \* self.runtime
    state,       \* self.state
    events,      \* self.events
    t,           \* run()'s local t
    result,      \* run()'s local dict, in insertion order: Seq of [key, value]
    returned,    \* the dict the last normal return of run() handed to the caller
    err,         \* the exception that ended construction or run(): [type, line]
    draws,       \* calls of random() made by the current run()
    evals,       \* calls of propensity functions made by the current run()
    iter,        \* completed iterations of the current run()
    runs,        \* calls of run() so far
    state0,      \* self.state as it was when the current run() began
    call,        \* a direct call of a sampler: [fn, arg, u]
    out          \* what that call produced: [kind, val]

vars == <<pc, inp, parameters, runtime, state, events, t, result, returned,
          err, draws, evals, iter, runs, state0, call, out>>

----------------------------------------------------------------------------
(* Bounds of the model *)

UDen == 4
MaxNegLog == 2
MaxRuntime == 3
MaxPop == 1
MaxLen == 3
MaxWeight == 2
MaxRate == 2

----------------------------------------------------------------------------
(* Arithmetic helpers *)

Abs(x) == IF x < 0 THEN -x ELSE x

Min(a, b) == IF a <= b THEN a ELSE b

RECURSIVE GCD(_, _)
GCD(a, b) == IF b = 0 THEN a ELSE GCD(b, a % b)

\* the rational n / d (d # 0) in lowest terms with a positive denominator
Rat(n, d) ==
    LET g == GCD(Abs(n), Abs(d))
        s == IF d < 0 THEN -1 ELSE 1
    IN  <<(s * n) \div g, (s * d) \div g>>

RatAdd(a, b) == Rat(a[1] * b[2] + b[1] * a[2], a[2] * b[2])

RatLess(a, b) == a[1] * b[2] < b[1] * a[2]

RatOfInt(n) == <<n, 1>>

\* 2^53 as the model writes it: 1 / HalfUlpDen stands for 2^-53, half the
\* spacing of the doubles in [1, 2)
HalfUlpDen == 2^20

\* a + d in double precision, for a time a that is a whole number or below 1
\* and d > 0: a sum that lies within 2^-53 of a >= 1 rounds to a
FloatAdd(a, d) ==
    IF ~RatLess(a, RatOfInt(1)) /\ ~RatLess(<<1, HalfUlpDen>>, d)
    THEN a
    ELSE RatAdd(a, d)

RECURSIVE SumSeq(_)
SumSeq(s) == IF s = <<>> THEN 0 ELSE Head(s) + SumSeq(Tail(s))

----------------------------------------------------------------------------
(* Values *)

NoErr == [type |-> "none", line |-> 0]

Raise(type, line) == [type |-> type, line |-> line]

Ok(kind, val) == [kind |-> kind, val |-> val, line |-> 0]

Fail(type, line) == [kind |-> type, val |-> 0, line |-> line]

----------------------------------------------------------------------------
(* sample_index(inp) with random() = u / UDen *)

\* faulty variant: the scan goes on while cum <= target
RECURSIVE ScanLE(_, _, _, _)
ScanLE(w, target, i, cum) ==
    IF cum * UDen <= target /\ i + 1 < Len(w)
    THEN ScanLE(w, target, i + 1, cum + w[i + 2])
    ELSE <<i, cum>>

\* the while loop of sample_index: cum < target, with target = u * total / UDen
RECURSIVE Scan(_, _, _, _)
Scan(w, target, i, cum) ==
    IF cum * UDen < target /\ i + 1 < Len(w)
    THEN Scan(w, target, i + 1, cum + w[i + 2])
    ELSE <<i, cum>>

\* faulty variant: the final test is cum > target
sample_index_strict(w, u) ==
    IF ~(Len(w) >= 1) THEN Fail("AssertionError", 42)
    ELSE IF \E k \in 1..Len(w) : ~(w[k] >= 0) THEN Fail("AssertionError", 44)
    ELSE LET target == u * SumSeq(w)
             end    == Scan(w, target, 0, w[1])
         IN  IF end[2] * UDen > target
             THEN Ok("index", end[1])
             ELSE Ok("None", 0)

sample_index(w, u) ==
    IF ~(Len(w) >= 1) THEN Fail("AssertionError", 42)
    ELSE IF \E k \in 1..Len(w) : ~(w[k] >= 0) THEN Fail("AssertionError", 44)
    ELSE LET target == u * SumSeq(w)      \* UDen * (random() * sum(inp))
             end    == Scan(w, target, 0, w[1])
         IN  IF end[2] * UDen >= target
             THEN Ok("index", end[1])
             ELSE Ok("None", 0)

----------------------------------------------------------------------------
(* sample_delay(inp) with random() = 0.0 (u = 0), exp(-u) (u >= 1) or *)
(* 1 - 2^-53 (u < 0)                                                   *)

\* faulty variant: the minus sign is lost, 1.0/inp * log(random())
sample_delay_unsigned(rate, u) ==
    IF ~(rate > 0) THEN Fail("AssertionError", 58)
    ELSE IF u = 0 THEN Fail("ValueError", 59)
    ELSE IF u < 0 THEN Ok("delay", Rat(-1, HalfUlpDen * rate))
    ELSE Ok("delay", Rat(-u, rate))

sample_delay(rate, u) ==
    IF ~(rate > 0) THEN Fail("AssertionError", 58)
    ELSE IF u = 0 THEN Fail("ValueError", 59)          \* log(0.0)
    ELSE IF u < 0 THEN Ok("delay", Rat(1, HalfUlpDen * rate))   \* log(1 - 2^-53)
    ELSE Ok("delay", Rat(u, rate))                      \* -1.0/inp * log(exp(-u))

----------------------------------------------------------------------------
(* Events: f[0] is a propensity, f[1] an effect *)

\* lambda x: x[1][p] * x[0][i]
Lin(p, i) == [callable |-> TRUE, tag |-> "lin", a |-> p, b |-> i, c |-> 0]

\* lambda x: x[1][p] * x[0][i] * x[0][j]
Bilin(p, i, j) == [callable |-> TRUE, tag |-> "bilin", a |-> p, b |-> i, c |-> j]

\* lambda x: k
Const(k) == [callable |-> TRUE, tag |-> "const", a |-> k, b |-> 0, c |-> 0]

\* a value that is not callable
NotCallable == [callable |-> FALSE, tag |-> "none", a |-> 0, b |-> 0, c |-> 0]

\* a list of numbers
List(elems) == [islist |-> TRUE, elems |-> elems, bad |-> {}]

\* a list whose (0-based) positions in bad hold a value that is not a number
BadList(elems, bad) == [islist |-> TRUE, elems |-> elems, bad |-> bad]

\* a sequence that is not a list (a tuple)
NotList(elems) == [islist |-> FALSE, elems |-> elems, bad |-> {}]

Ev(f0, f1) == [f0 |-> f0, f1 |-> f1]

\* f[0]((self.state, self.parameters))
Propensity(f0, st, par) ==
    CASE f0.tag = "lin" ->
           IF f0.a < Len(par) /\ f0.b < Len(st)
           THEN Ok("num", par[f0.a + 1] * st[f0.b + 1])
           ELSE Fail("IndexError", 79)
      [] f0.tag = "bilin" ->
           IF f0.a < Len(par) /\ f0.b < Len(st) /\ f0.c < Len(st)
           THEN Ok("num", par[f0.a + 1] * st[f0.b + 1] * st[f0.c + 1])
           ELSE Fail("IndexError", 79)
      [] f0.tag = "const" -> Ok("num", f0.a)
      [] OTHER -> Fail("TypeError", 79)

\* [sum(_) for _ in zip(event_differential, self.state)]
ZipSum(eff, st) == [k \in 1..Min(Len(eff), Len(st)) |-> eff[k] + st[k]]

\* result[key] = value on a dict kept in insertion order
DictSet(d, key, value) ==
    IF \E k \in 1..Len(d) : d[k].key = key
    THEN [k \in 1..Len(d) |-> IF d[k].key = key
                              THEN [key |-> key, value |-> value]
                              ELSE d[k]]
    ELSE Append(d, [key |-> key, value |-> value])

----------------------------------------------------------------------------
(* Outbreak.__init__ *)

\* faulty variant: only callable(f[0]) is asserted
InitCheckCallableOnly(evs) ==
    IF \E k \in 1..Len(evs) : ~evs[k].f0.callable
    THEN Raise("AssertionError", 70)
    ELSE NoErr

\* the first assertion of the loop over self.events that fails, if any
InitCheck(evs) ==
    LET badAt(k) == ~evs[k].f0.callable \/ ~evs[k].f1.islist
        K == {k \in 1..Len(evs) : badAt(k)}
    IN  IF K = {} THEN NoErr
        ELSE LET k == CHOOSE x \in K : \A y \in K : x <= y
             IN  IF ~evs[k].f0.callable
                 THEN Raise("AssertionError", 70)
                 ELSE Raise("AssertionError", 71)

Construct ==
    /\ pc = "new"
    /\ parameters' = inp.parameters
    /\ runtime' = inp.runtime
    /\ state' = inp.initial_state
    /\ events' = inp.events
    /\ err' = InitCheck(inp.events)
    /\ pc' = IF InitCheck(inp.events) = NoErr THEN "ready" ELSE "failed"
    /\ UNCHANGED <<inp, t, result, returned, draws, evals, iter, runs, state0, call, out>>

----------------------------------------------------------------------------
(* Outbreak.run *)

\* faulty variant: the check of the sum is missing
ValidateNoSum(pmf) ==
    IF \E k \in 1..Len(pmf) : ~(pmf[k] >= 0) THEN Raise("AssertionError", 84)
    ELSE NoErr

\* assert all(_ >= 0.0 for _ in pmf); assert sum(pmf) > 0.0
Validate(pmf) ==
    IF \E k \in 1..Len(pmf) : ~(pmf[k] >= 0) THEN Raise("AssertionError", 84)
    ELSE IF ~(SumSeq(pmf) > 0) THEN Raise("AssertionError", 85)
    ELSE NoErr

\* faulty variant: the comparison is inverted, while t > self.runtime
LoopConditionInverted(tm) == RatLess(RatOfInt(runtime), tm)

\* faulty variant: while t != self.runtime
LoopConditionNE(tm) == tm # RatOfInt(runtime)

\* faulty variant: while t <= self.runtime
LoopConditionLE(tm) == ~RatLess(RatOfInt(runtime), tm)

\* while t < self.runtime
LoopCondition(tm) == RatLess(tm, RatOfInt(runtime))

\* faulty variant: the rate is the largest propensity, float(max(pmf))
DelayParameterMax(pmf) ==
    CHOOSE m \in {pmf[k] : k \in 1..Len(pmf)} : \A k \in 1..Len(pmf) : pmf[k] <= m

\* delay_parameter = float(sum(pmf))
DelayParameter(pmf) == SumSeq(pmf)

\* the code under which the run loop is given the draw 1 - 2^-53
NearOne == MaxNegLog + 1

\* one pass of the while body from (st, tm, res), with random() giving
\* exp(-L * sum(pmf)), or 0.0 when L = 0, or 1 - 2^-53 when L = NearOne, to
\* sample_delay and u2 / UDen to sample_index
LoopBody(st, tm, res, L, u2) ==
    LET vals == [k \in 1..Len(events) |-> Propensity(events[k].f0, st, parameters)]
        tmp  == [k \in 1..Len(events) |-> events[k].f1]
        stop(e, tm2, n) == [err |-> e, state |-> st, t |-> tm2, result |-> res,
                            draws |-> n, evals |-> Len(events), done |-> FALSE]
    IN  IF \E k \in 1..Len(vals) : vals[k].kind # "num"
        THEN LET k == CHOOSE x \in 1..Len(vals) :
                          /\ vals[x].kind # "num"
                          /\ \A y \in 1..(x - 1) : vals[y].kind = "num"
             IN  [stop(Raise(vals[k].kind, vals[k].line), tm, 0) EXCEPT !.evals = k]
        ELSE
        LET pmf == [k \in 1..Len(vals) |-> vals[k].val]
        IN  IF Validate(pmf) # NoErr
            THEN stop(Validate(pmf), tm, 0)
            ELSE
            LET delay_parameter == DelayParameter(pmf)
                event_delay == sample_delay(delay_parameter,
                                   IF L = NearOne THEN -1 ELSE L * SumSeq(pmf))
            IN  IF event_delay.kind = "AssertionError"
                THEN stop(Raise(event_delay.kind, event_delay.line), tm, 0)
                ELSE IF event_delay.kind # "delay"
                THEN stop(Raise(event_delay.kind, event_delay.line), tm, 1)
                ELSE
                LET t2 == FloatAdd(tm, event_delay.val)
                    event_identity == sample_index(pmf, u2)
                IN  IF event_identity.kind = "AssertionError"
                    THEN stop(Raise(event_identity.kind, event_identity.line), t2, 1)
                    ELSE IF event_identity.kind = "None"
                    THEN stop(Raise("TypeError", 96), t2, 2)   \* tmp[None]
                    ELSE
                    LET event_differential == tmp[event_identity.val + 1]
                        n == Min(Len(event_differential.elems), Len(st))
                    IN  IF \E k \in event_differential.bad : k < n
                        THEN stop(Raise("TypeError", 97), t2, 2)   \* int + str
                        ELSE
                        LET st2 == ZipSum(event_differential.elems, st)
                        IN  [err |-> NoErr, state |-> st2, t |-> t2,
                             result |-> DictSet(res, t2,
                                 [state |-> st2, delay |-> event_delay.val,
                                  identity |-> event_identity.val,
                                  differential |-> event_differential]),
                             draws |-> 2, evals |-> Len(events), done |-> TRUE]

\* faulty variant: self.state is updated in place, so the list the caller
\* passed changes with it
CallerListInPlace(old, new) == new

\* the elements of the list the caller passed as 'initial state' once line 97
\* has run: the comprehension builds a new list and rebinds self.state to it,
\* so the caller's list keeps the elements it had
CallerList(old, new) == old

\* result = dict(); t = 0
RunStart ==
    /\ pc = "ready"
    /\ pc' = "running"
    /\ result' = <<>>
    /\ t' = RatOfInt(0)
    /\ draws' = 0
    /\ evals' = 0
    /\ iter' = 0
    /\ runs' = runs + 1
    /\ state0' = state
    /\ UNCHANGED <<inp, parameters, runtime, state, events, returned, err, call, out>>

\* the draws of random() taken at sample_delay in the present state: the
\* draw 1 - 2^-53 is taken once in a run, at a time t >= 1 in the last unit
\* of time before the horizon
DelayDraws ==
    (0..MaxNegLog) \cup
    {L \in {NearOne} : /\ iter = Len(result)
                        /\ ~RatLess(t, RatOfInt(1))
                        /\ ~RatLess(RatAdd(t, RatOfInt(1)), RatOfInt(runtime))}

\* while t < self.runtime: one iteration, to its end or to the exception that ends run()
Iterate ==
    /\ pc = "running"
    /\ LoopCondition(t)
    /\ \E L \in DelayDraws, u2 \in 0..(UDen - 1) :
         LET o == LoopBody(state, t, result, L, u2)
         IN  /\ state' = o.state
             /\ t' = o.t
             /\ result' = o.result
             /\ err' = o.err
             /\ draws' = draws + o.draws
             /\ evals' = evals + o.evals
             /\ iter' = IF o.done THEN iter + 1 ELSE iter
             /\ pc' = IF o.done THEN "running" ELSE "failed"
             /\ inp' = IF o.done
                       THEN [inp EXCEPT !.initial_state = CallerList(@, o.state)]
                       ELSE inp
    /\ UNCHANGED <<parameters, runtime, events, returned, runs, state0, call, out>>

\* the while condition fails: return result
Return ==
    /\ pc = "running"
    /\ ~LoopCondition(t)
    /\ pc' = "returned"
    /\ returned' = result
    /\ UNCHANGED <<inp, parameters, runtime, state, events, t, result, err,
                   draws, evals, iter, runs, state0, call, out>>

----------------------------------------------------------------------------
(* Direct calls of the samplers *)

Pending == [kind |-> "pending", val |-> 0, line |-> 0]

NoCall == [fn |-> "none", arg |-> <<>>, u |-> 0]

CallSampleIndex ==
    /\ pc = "probe"
    /\ call.fn = "sample_index"
    /\ out = Pending
    /\ out' = sample_index(call.arg, call.u)
    /\ UNCHANGED <<pc, inp, parameters, runtime, state, events, t, result,
                   returned, err, draws, evals, iter, runs, state0, call>>

CallSampleDelay ==
    /\ pc = "probe"
    /\ call.fn = "sample_delay"
    /\ out = Pending
    /\ out' = sample_delay(call.arg, call.u)
    /\ UNCHANGED <<pc, inp, parameters, runtime, state, events, t, result,
                   returned, err, draws, evals, iter, runs, state0, call>>

----------------------------------------------------------------------------
(* Inputs *)

SeqsUpTo(S, n) == UNION {[1..k -> S] : k \in 0..n}

WeightLists == SeqsUpTo(-1..MaxWeight, MaxLen)

Parameters == <<1, 2>>

\* the events of the pool that construct and whose effects fit the state
LivePool ==
    { Ev(Lin(0, 0), List(<<-1, 1>>)),
      Ev(Lin(0, 1), List(<<1, -1>>)),
      Ev(Lin(1, 0), List(<<1, 0>>)),
      Ev(Const(1), List(<<-1, 0>>)),
      Ev(Bilin(0, 0, 1), List(<<-1, 1>>)) }

EventPool ==
    { Ev(Lin(0, 0), List(<<-1, 1>>)),
      Ev(Lin(0, 1), List(<<1, -1>>)),
      Ev(Lin(1, 0), List(<<1, 0>>)),
      Ev(Const(1), List(<<-1, 0>>)),
      Ev(Bilin(0, 0, 1), List(<<-1, 1>>)),
      Ev(Lin(0, 0), List(<<1>>)),
      Ev(Lin(0, 1), List(<<0, 1, 0>>)),
      Ev(Lin(0, 1), BadList(<<0, 1>>, {1})),
      Ev(NotCallable, List(<<0, 0>>)),
      Ev(Lin(0, 0), NotList(<<1, 0>>)) }

\* no event, one event of the pool, or an event that runs followed by one of
\* the pool
EventSets == {<<>>} \cup {<<e>> : e \in EventPool}
                    \cup {<<e, f>> : e \in LivePool, f \in EventPool}

Bundles ==
    [parameters : {Parameters}, runtime : (-1)..MaxRuntime,
     initial_state : [1..2 -> 0..MaxPop], events : EventSets]

Idle ==
    /\ parameters = <<>>
    /\ runtime = 0
    /\ state = <<>>
    /\ events = <<>>
    /\ t = RatOfInt(0)
    /\ result = <<>>
    /\ returned = <<>>
    /\ err = NoErr
    /\ draws = 0
    /\ evals = 0
    /\ iter = 0
    /\ runs = 0
    /\ state0 = <<>>
    /\ out = Pending

InitEngine ==
    /\ pc = "new"
    /\ inp \in Bundles
    /\ call = NoCall
    /\ Idle

InitProbe ==
    /\ pc = "probe"
    /\ inp = [parameters |-> <<>>, runtime |-> 0, initial_state |-> <<>>, events |-> <<>>]
    /\ \/ call \in [fn : {"sample_index"}, arg : WeightLists, u : 0..(UDen - 1)]
       \/ call \in [fn : {"sample_delay"}, arg : -1..MaxRate, u : 0..MaxNegLog]
    /\ Idle

Init == InitEngine \/ InitProbe

Next ==
    \/ Construct
    \/ RunStart
    \/ Iterate
    \/ Return
    \/ CallSampleIndex
    \/ CallSampleDelay

Spec == Init /\ [][Next]_vars

----------------------------------------------------------------------------
(* The engine alone, run to its end, on event sets whose events are all     *)
(* accepted at construction and have effects as long as the state            *)

LiveEventSets == {<<e>> : e \in LivePool}
                     \cup {<<e, f>> : e \in LivePool, f \in LivePool}

InitLive ==
    /\ pc = "new"
    /\ inp \in [parameters : {Parameters}, runtime : 0..MaxRuntime,
                initial_state : {<<MaxPop, MaxPop>>, <<MaxPop, 0>>},
                events : LiveEventSets]
    /\ call = NoCall
    /\ Idle

NextEngine ==
    \/ Construct
    \/ RunStart
    \/ Iterate
    \/ Return

\* run() is sequential code: a step that can be taken is taken
LiveSpec == InitLive /\ [][NextEngine]_vars /\ WF_vars(NextEngine)

----------------------------------------------------------------------------
(* standard_SIR: the nine events over the compartments [S, I, R] *)

\* faulty variant: res_births_sus takes a susceptible away, [-1, 0, 0]
SIREventsSignSlip ==
    << Ev(Lin(0, 0), List(<<1, 0, 0>>)),
       Ev(Lin(1, 0), List(<<-1, 0, 0>>)),
       Ev(Bilin(2, 0, 1), List(<<-1, 1, 0>>)),
       Ev(Lin(0, 2), List(<<-1, 0, 0>>)),
       Ev(Lin(3, 1), List(<<0, -1, 1>>)),
       Ev(Lin(1, 1), List(<<0, -1, 0>>)),
       Ev(Lin(4, 1), List(<<0, -1, 0>>)),
       Ev(Lin(0, 1), List(<<0, 1, 0>>)),
       Ev(Lin(1, 2), List(<<0, 0, -1>>)) >>

\* faulty variant: the two events of the recovered read x[0][0], the
\* susceptibles, as the lines they were copied from do
SIREventsCopied ==
    << Ev(Lin(0, 0), List(<<1, 0, 0>>)),
       Ev(Lin(1, 0), List(<<-1, 0, 0>>)),
       Ev(Bilin(2, 0, 1), List(<<-1, 1, 0>>)),
       Ev(Lin(0, 0), List(<<1, 0, 0>>)),
       Ev(Lin(3, 1), List(<<0, -1, 1>>)),
       Ev(Lin(1, 1), List(<<0, -1, 0>>)),
       Ev(Lin(4, 1), List(<<0, -1, 0>>)),
       Ev(Lin(0, 1), List(<<0, 1, 0>>)),
       Ev(Lin(1, 0), List(<<0, 0, -1>>)) >>

\* events = [sus_births_sus, sus_dies_naturally, sus_gets_infected,
\*           res_births_sus, inf_recovers, inf_dies_naturally,
\*           inf_dies_from_disease, inf_births_inf_lol, res_dies_naturally]
SIREvents ==
    << Ev(Lin(0, 0), List(<<1, 0, 0>>)),
       Ev(Lin(1, 0), List(<<-1, 0, 0>>)),
       Ev(Bilin(2, 0, 1), List(<<-1, 1, 0>>)),
       Ev(Lin(0, 2), List(<<1, 0, 0>>)),
       Ev(Lin(3, 1), List(<<0, -1, 1>>)),
       Ev(Lin(1, 1), List(<<0, -1, 0>>)),
       Ev(Lin(4, 1), List(<<0, -1, 0>>)),
       Ev(Lin(0, 1), List(<<0, 1, 0>>)),
       Ev(Lin(1, 2), List(<<0, 0, -1>>)) >>

\* state = [90, 10, 0]
SIRInitial == <<90, 10, 0>>

\* [birth_rate, death_rate, infection rate, recovery rate, ifr]: positive
\* per-capita rates, here whole numbers
SIRParameters == {<<1, 1, 1, 1, 1>>, <<MaxRate, 1, 1, MaxRate, 1>>}

\* the initial state of standard_SIR, and the small populations that a run
\* from it passes through on the way to extinction
SIRStates ==
    {SIRInitial} \cup
    {s \in [1..3 -> 0..MaxPop] : s[1] + s[2] + s[3] <= MaxPop}

InitSIR ==
    /\ pc = "new"
    /\ inp \in [parameters : SIRParameters, runtime : {MaxRuntime},
                initial_state : SIRStates, events : {SIREvents}]
    /\ call = NoCall
    /\ Idle

SIRSpec == InitSIR /\ [][NextEngine]_vars

----------------------------------------------------------------------------
(* run() called a second time on the same engine *)

\* faulty variant: the dict is kept by the engine and used again
RunAgainKeepsDict ==
    /\ pc = "returned"
    /\ runs = 1
    /\ pc' = "running"
    /\ result' = returned
    /\ t' = RatOfInt(0)
    /\ draws' = 0
    /\ evals' = 0
    /\ iter' = 0
    /\ runs' = runs + 1
    /\ state0' = state
    /\ UNCHANGED <<inp, parameters, runtime, state, events, returned, err, call, out>>

\* the caller, holding the dict the first call returned, calls run() again:
\* result = dict(); t = 0, with self.state as the first call left it
RunAgain ==
    /\ pc = "returned"
    /\ runs = 1
    /\ pc' = "running"
    /\ result' = <<>>
    /\ t' = RatOfInt(0)
    /\ draws' = 0
    /\ evals' = 0
    /\ iter' = 0
    /\ runs' = runs + 1
    /\ state0' = state
    /\ UNCHANGED <<inp, parameters, runtime, state, events, returned, err, call, out>>

AgainEventSets ==
    {<<e>> : e \in LivePool}
        \cup {<<Ev(Lin(0, 0), List(<<-1, 1>>)), Ev(Lin(0, 1), List(<<1, -1>>))>>}

InitAgain ==
    /\ pc = "new"
    /\ inp \in [parameters : {Parameters}, runtime : 0..MaxRuntime,
                initial_state : {<<MaxPop, MaxPop>>},
                events : AgainEventSets]
    /\ call = NoCall
    /\ Idle

NextAgain ==
    \/ NextEngine
    \/ RunAgain

AgainSpec == InitAgain /\ [][NextAgain]_vars

----------------------------------------------------------------------------
(* The samplers called on their own *)

\* sum(inp[0 .. i]), i 0-based
PrefixSum(w, i) == SumSeq(SubSeq(w, 1, i + 1))

\* a non-empty list of non-negative weights with a strictly positive sum
ValidWeights(w) ==
    /\ Len(w) >= 1
    /\ \A k \in 1..Len(w) : w[k] >= 0
    /\ SumSeq(w) > 0

IndexCalled == pc = "probe" /\ call.fn = "sample_index" /\ out # Pending

DelayCalled == pc = "probe" /\ call.fn = "sample_delay" /\ out # Pending

\* C5: for every non-empty list of non-negative weights with positive sum and
\* every draw u in [0,1), sample_index returns an index i, 0 <= i < len(weights),
\* never None; a one-element list yields 0; and in run() every recorded event
\* identity is a valid index into the event set and tmp[None] never happens.
C5_IndexInRange ==
    /\ (IndexCalled /\ ValidWeights(call.arg)) =>
          /\ out.kind = "index"
          /\ out.val \in 0..(Len(call.arg) - 1)
          /\ (Len(call.arg) = 1 => out.val = 0)
    /\ pc \in {"running", "returned", "failed"} =>
          /\ \A k \in 1..Len(result) :
                 result[k].value.identity \in 0..(Len(events) - 1)
          /\ err # Raise("TypeError", 96)

\* a valid three-element list whose last index is returned on the largest draw
C5_Witness ==
    /\ IndexCalled /\ ValidWeights(call.arg)
    /\ Len(call.arg) = MaxLen /\ call.u = UDen - 1
    /\ out.kind = "index" /\ out.val = Len(call.arg) - 1

\* C6: for every valid weight list and every draw u, sample_index returns the
\* smallest index i whose cumulative sum weights[0] + ... + weights[i] is
\* >= target = u * sum(weights).
C6_InverseCDF ==
    (IndexCalled /\ ValidWeights(call.arg)) =>
        /\ out.kind = "index"
        /\ PrefixSum(call.arg, out.val) * UDen >= call.u * SumSeq(call.arg)
        /\ \A j \in 0..(out.val - 1) :
               PrefixSum(call.arg, j) * UDen < call.u * SumSeq(call.arg)

\* the scan stops in the middle of a list, exactly on its target
C6_Witness ==
    /\ IndexCalled /\ ValidWeights(call.arg)
    /\ out.kind = "index" /\ out.val >= 1 /\ out.val < Len(call.arg) - 1
    /\ PrefixSum(call.arg, out.val) * UDen = call.u * SumSeq(call.arg)

\* C7: sample_index fails with a precondition violation whenever the weight
\* sequence is empty, contains a negative value, or sums to <= 0.
C7_IndexRejects ==
    (IndexCalled /\ ~ValidWeights(call.arg)) => out.kind = "AssertionError"

\* C8: sample_delay fails with a precondition violation when the rate is <= 0;
\* for every rate > 0 and every draw in the open interval (0,1) it returns a
\* strictly positive waiting time; and in run() the assertion of sample_delay
\* is never the check that fails.
C8_DelaySampler ==
    /\ (DelayCalled /\ call.arg <= 0) => out = Fail("AssertionError", 58)
    /\ (DelayCalled /\ call.arg > 0 /\ call.u # 0) =>
          /\ out.kind = "delay"
          /\ out.val[1] > 0 /\ out.val[2] > 0
    /\ err # Raise("AssertionError", 58)
    /\ \A k \in 1..Len(result) :
           result[k].value.delay[1] > 0 /\ result[k].value.delay[2] > 0

\* a positive rate and a draw inside (0,1) give a waiting time
C8_Witness ==
    /\ DelayCalled /\ call.arg = MaxRate /\ call.u = 1
    /\ out.kind = "delay" /\ out.val = <<1, MaxRate>>

----------------------------------------------------------------------------
(* The engine *)

LastRecord(d) == d[Len(d)]

\* an iteration of run() ran to its end in this step
IterationDone == pc = "running" /\ iter' = iter + 1

\* old + eff elementwise, for two sequences of one length
Elementwise(old, eff) == [k \in 1..Len(old) |-> old[k] + eff[k]]

\* C2: in every iteration of run() the new engine state is the pre-iteration
\* state plus the effect vector of the chosen event, elementwise, and the record
\* written for the iteration holds that new state, the drawn waiting time, the
\* chosen event index and that event's effect vector, under the key t + waiting
\* time.
C2_StateEvolution ==
    [][IterationDone =>
         LET rec == LastRecord(result')
             eff == events[rec.value.identity + 1].f1
         IN  /\ Len(result') = Len(result) + 1
             /\ Len(eff.elems) = Len(state)
             /\ state' = Elementwise(state, eff.elems)
             /\ rec.value.state = state'
             /\ rec.value.differential = eff
             /\ rec.key = t'
             /\ t' = RatAdd(t, rec.value.delay)]_vars

\* the keys of d, and the largest of them
Keys(d) == {d[k].key : k \in 1..Len(d)}

IsLatest(d, key) == \A other \in Keys(d) : ~RatLess(key, other)

\* C3: when run() returns normally, exactly the last record in time order has
\* time >= runtime and every earlier record has time < runtime; the crossing
\* iteration is recorded under its own, unclipped time.
C3_HorizonOvershoot ==
    /\ pc = "returned" =>
          /\ \A k \in 1..Len(returned) :
                 IsLatest(returned, returned[k].key)
                     <=> ~RatLess(returned[k].key, RatOfInt(runtime))
          /\ \A k \in 1..Len(returned) :
                 IsLatest(returned, returned[k].key) => returned[k].key = t
    /\ pc = "running" =>
          \A k \in 1..Len(result) :
              ~IsLatest(result, result[k].key)
                  => RatLess(result[k].key, RatOfInt(runtime))

\* run() returned three records, the last one strictly past the horizon
C3_Witness ==
    /\ pc = "returned" /\ Len(returned) >= 3
    /\ RatLess(RatOfInt(runtime), LastRecord(returned).key)

\* every propensity evaluates, and one is negative or they sum to zero
IllPosed ==
    LET vals == [k \in 1..Len(events) |-> Propensity(events[k].f0, state, parameters)]
    IN  /\ \A k \in 1..Len(vals) : vals[k].kind = "num"
        /\ \/ \E k \in 1..Len(vals) : vals[k].val < 0
           \/ SumSeq([k \in 1..Len(vals) |-> vals[k].val]) = 0

\* C4: if at the start of an iteration (t < runtime) some propensity is negative
\* or the propensities sum to zero, run() aborts with a failure of one of its two
\* checks and returns nothing; the failing iteration draws no waiting time,
\* advances no time, fires no event, appends no record and leaves the engine
\* state as the last completed iteration left it. A failed run stays failed.
C4_IllPosedAborts ==
    /\ [][(pc = "running" /\ LoopCondition(t) /\ IllPosed) =>
            /\ pc' = "failed"
            /\ err' \in {Raise("AssertionError", 84), Raise("AssertionError", 85)}
            /\ UNCHANGED <<t, state, result, returned, draws, iter>>]_vars
    /\ [][pc = "failed" => pc' = "failed"]_vars

\* a run that completed two iterations and then met a negative propensity
C4_Witness ==
    /\ pc = "failed" /\ err = Raise("AssertionError", 84)
    /\ iter = 2 /\ Len(result) = 2 /\ draws = 4
    /\ state = LastRecord(result).value.state

\* an effect that is a list of numbers as long as the initial state
ProperEffect(f1, n) == f1.islist /\ f1.bad = {} /\ Len(f1.elems) = n

\* C9 as stated: constructing an Outbreak with any event whose propensity is not
\* invocable, or whose effect is not a proper fixed-length numeric sequence,
\* fails at construction, so no run() and no trajectory come of it.
C9_AsStated ==
    (/\ pc \notin {"new", "probe"}
     /\ \E k \in 1..Len(inp.events) :
            \/ ~inp.events[k].f0.callable
            \/ ~ProperEffect(inp.events[k].f1, Len(inp.initial_state)))
    => (pc = "failed" /\ err.line \in {70, 71} /\ runs = 0)

\* C9 amended: constructing an Outbreak with any event whose propensity is not
\* callable, or whose effect is not a list, fails at construction with an
\* AssertionError, and no run() and no trajectory ever come of it.
C9_ConstructionRejects ==
    (/\ pc \notin {"new", "probe"}
     /\ \E k \in 1..Len(inp.events) :
            \/ ~inp.events[k].f0.callable
            \/ ~inp.events[k].f1.islist)
    => /\ pc = "failed"
       /\ err \in {Raise("AssertionError", 70), Raise("AssertionError", 71)}
       /\ runs = 0 /\ result = <<>> /\ returned = <<>>

\* construction failed on an effect that is not a list, after a well-formed event
C9_Witness ==
    /\ pc = "failed" /\ err = Raise("AssertionError", 71)
    /\ Len(inp.events) = 2
    /\ inp.events[1].f0.callable /\ inp.events[1].f1.islist
    /\ ~inp.events[2].f1.islist

\* C10: a mismatch between the length of a fired event's effect and the length
\* of the state surfaces as a failure of the sum, so the length of the engine
\* state never changes during a run that does not fail.
C10_LengthKept ==
    pc \in {"running", "returned"} =>
        /\ Len(state) = Len(state0)
        /\ \A k \in 1..Len(result) :
               Len(result[k].value.differential.elems) = Len(result[k].value.state)

\* C11: when run() returns normally with a non-empty trajectory the engine's
\* state equals the state stored in the record with the greatest time; and no
\* step of run() changes the parameters, the runtime, the events (effect
\* vectors included) or the list the caller passed as the initial state.
C11_RunFrame ==
    [][/\ pc \in {"ready", "running"} =>
             UNCHANGED <<inp, parameters, runtime, events>>
       /\ (pc' = "returned" /\ returned' # <<>>) =>
             \A k \in 1..Len(returned') :
                 IsLatest(returned', returned'[k].key)
                     => state' = returned'[k].value.state]_vars

\* run() returned two records or more and left the engine in a state that is
\* not the one the caller passed
C11_Witness ==
    /\ pc = "returned" /\ Len(returned) >= 2
    /\ state # inp.initial_state
    /\ state = LastRecord(returned).value.state

\* C12: the trajectory is append-only with strictly increasing times: every
\* completed iteration adds exactly one new record, under a key strictly greater
\* than every earlier key, and leaves every earlier record as it was, so the
\* number of records equals the number of completed iterations.
C12_AppendOnly ==
    [][IterationDone =>
         /\ Len(result') = Len(result) + 1
         /\ SubSeq(result', 1, Len(result)) = result
         /\ \A k \in 1..Len(result) :
                RatLess(result[k].key, LastRecord(result').key)
         /\ Len(result') = iter']_vars

\* every compartment of st is an integer >= 0, and there are three of them
Compartments(st) == Len(st) = 3 /\ \A k \in 1..3 : st[k] \in Nat

\* C13: for the nine SIR events with positive parameters, started from
\* [90, 10, 0], every state reached and recorded by run() has three integer
\* compartments >= 0, whatever events fired and whatever was drawn (a draw of
\* exactly 0 included).
C13_SIRNonNegative ==
    pc \in {"running", "returned", "failed"} =>
        /\ Compartments(state)
        /\ \A k \in 1..Len(result) : Compartments(result[k].value.state)

\* with no susceptible left a draw of 0 fired sus_births_sus, and later the
\* last infectious recovered
C13_Witness ==
    /\ pc = "returned" /\ Len(returned) >= 2
    /\ state0[1] = 0
    /\ returned[1].value.identity = 0
    /\ state[2] = 0 /\ state[3] > 0

\* the propensity vector of the SIR events at st under par
SIRPmf(st, par) ==
    [k \in 1..Len(SIREvents) |-> Propensity(SIREvents[k].f0, st, par).val]

\* C17: for the nine SIR events with positive parameters and compartments >= 0
\* the total propensity is zero iff S = I = R = 0; so a run started from
\* [90, 10, 0] fails a propensity check only when the population is extinct
\* before the horizon, and never for a negative propensity.
C17_SIRExtinction ==
    pc \in {"running", "returned", "failed"} =>
        /\ SumSeq(SIRPmf(state, parameters)) = 0 <=> state = <<0, 0, 0>>
        /\ \A k \in 1..Len(SIREvents) : SIRPmf(state, parameters)[k] >= 0
        /\ (pc = "failed" /\ err.type = "AssertionError") =>
              /\ err = Raise("AssertionError", 85)
              /\ state = <<0, 0, 0>>
              /\ LoopCondition(t)

\* the last member of the population died after the first iteration and run()
\* stopped on the check of the sum
C17_Witness ==
    /\ pc = "failed" /\ err = Raise("AssertionError", 85)
    /\ iter >= 1 /\ state = <<0, 0, 0>>

\* C14: sample_index never returns an index whose weight is 0, for every valid
\* weight list and every draw u in [0,1); hence an event whose propensity is 0
\* at the current state is never the event fired by run().
C14_ZeroWeightNeverFires ==
    [][/\ (pc = "probe" /\ call.fn = "sample_index" /\ ValidWeights(call.arg)
           /\ out'.kind = "index") =>
             call.arg[out'.val + 1] > 0
       /\ IterationDone =>
             Propensity(events[LastRecord(result').value.identity + 1].f0,
                        state, parameters).val > 0]_vars

\* C15: a second call of run() on the same engine restarts simulated time at 0,
\* starts from the state the first call left (not the original initial state),
\* and builds and returns a fresh trajectory: it starts empty, every record in
\* it was written by the second call, and the dict the first call returned is
\* not changed while the second call runs.
C15_Reinvocation ==
    [][/\ (pc = "returned" /\ pc' = "running") =>
             /\ t' = RatOfInt(0)
             /\ result' = <<>>
             /\ state' = state
             /\ returned # <<>> => state' = LastRecord(returned).value.state
             /\ returned' = returned
       /\ (runs = 2 /\ pc = "running") =>
             /\ Len(result') <= iter'
             /\ pc' # "returned" => returned' = returned
             /\ pc' = "returned" => returned' = result
             /\ (iter = 0 /\ iter' = 1) =>
                   \E k \in 1..Len(events) :
                       state' = ZipSum(events[k].f1.elems, state0)]_vars

\* the second call returned a trajectory of its own, having started from a
\* state that is not the one the engine was constructed with
C15_Witness ==
    /\ runs = 2 /\ pc = "returned" /\ Len(returned) >= 2
    /\ state0 # inp.initial_state
    /\ state # state0

\* the propensity vector of the engine's events at st
PmfAt(st) == [k \in 1..Len(events) |-> Propensity(events[k].f0, st, parameters).val]

\* C16: in each iteration every event's propensity is evaluated exactly once,
\* against the state and parameters as they are before the event fires; that
\* one vector gives the waiting-time rate (its sum) and the weights of the
\* event choice; the time is advanced and the event chosen before the effect is
\* applied to that same pre-event state.
C16_OneVector ==
    [][IterationDone =>
         LET pmf == PmfAt(state)
             rec == LastRecord(result').value
         IN  /\ evals' = evals + Len(events)
             /\ draws' = draws + 2
             /\ \E L \in DelayDraws :
                    /\ sample_delay(SumSeq(pmf),
                                    IF L = NearOne THEN -1 ELSE L * SumSeq(pmf))
                           = Ok("delay", rec.delay)
                    /\ t' = FloatAdd(t, rec.delay)
             /\ \E u2 \in 0..(UDen - 1) :
                    sample_index(pmf, u2) = Ok("index", rec.identity)
             /\ state' = ZipSum(events[rec.identity + 1].f1.elems, state)]_vars

\* two iterations of a two-event engine, four propensity calls, and a final
\* state at which the propensities are not what they were at the start
C16_Witness ==
    /\ pc = "returned" /\ iter = 2
    /\ Len(events) = 2 /\ evals = 4
    /\ Len(state) = Len(state0)
    /\ PmfAt(state) # PmfAt(state0)

\* C18: when runtime <= 0, run() returns an empty trajectory without evaluating
\* any propensity, running any check, drawing anything or changing the engine
\* state, even for an ill-posed or empty event set; when runtime > 0 and run()
\* returns normally, the trajectory holds at least one record.
C18_EmptyOrNot ==
    /\ (runs >= 1 /\ runtime <= 0) =>
          /\ pc \in {"running", "returned"}
          /\ err = NoErr
          /\ evals = 0 /\ draws = 0 /\ iter = 0
          /\ result = <<>>
          /\ state = state0 /\ state = inp.initial_state
          /\ pc = "returned" => returned = <<>>
    /\ (pc = "returned" /\ runtime > 0) => Len(returned) >= 1

\* run() returned at once from an engine whose propensities sum to zero at
\* its state, the horizon being negative
C18_Witness ==
    /\ pc = "returned" /\ runtime < 0
    /\ events # <<>> /\ IllPosed
    /\ returned = <<>>

\* run() has returned past the horizon, its last record at or past it
Terminated ==
    /\ pc = "returned"
    /\ ~RatLess(t, RatOfInt(runtime))
    /\ runtime > 0 =>
          /\ Len(returned) >= 1
          /\ ~RatLess(LastRecord(returned).key, RatOfInt(runtime))

\* C1: for an event set whose propensities are all >= 0 with a strictly
\* positive total at every state reached, and with every waiting-time draw
\* positive (no check and no draw ever fails), run() eventually returns, and the
\* time of the last recorded entry is >= runtime.
C1_HorizonTermination == [](pc # "failed") => <>Terminated

\* a run that took as many iterations as the horizon allows
C1_Witness ==
    /\ pc = "returned" /\ runtime = MaxRuntime
    /\ Len(returned) = MaxRuntime
    /\ ~RatLess(LastRecord(returned).key, RatOfInt(runtime))

====
